---------------------------- MODULE Spec2Model ----------------------------
(***************************************************************************)
(* NumberOfBuildingCrossing.py: for every ordered pair of building         *)
(* centroids (i, j) the script selects the two centroids, draws a polyline *)
(* through the selected points, selects the building polygons that         *)
(* intersect the polyline and appends the number of selected polygons to   *)
(* dict_out[i].  Afterwards it writes the centroid coordinates and the     *)
(* matrix to two pickle files.                                             *)
(*                                                                         *)
(* Geometry is exact integer geometry: footprints are axis-parallel        *)
(* rectangles with even coordinates, so that their centroids are integer   *)
(* points; INTERSECT is closed-set intersection (any contact counts).      *)
(***************************************************************************)
EXTENDS Integers, Sequences, FiniteSets, TLC

\* ------------------------------------------------------------------ bounds
\* largest number of features in the input feature class
MaxN == 3
\* building sites form a grid (0..MaxX) x (0..MaxY)
MaxX == 2
MaxY == 1

\* ---------------------------------------------------------------- geometry
Sites == (0 .. MaxX) \X (0 .. MaxY)

\* footprint of the building on a site: a 4 x 4 square, sites are 6 apart
Footprint(c) ==
    [xmin |-> 6 * c[1], ymin |-> 6 * c[2], xmax |-> 6 * c[1] + 4, ymax |-> 6 * c[2] + 4]

\* a polygon of the input that is not a building (covers the whole area)
Park ==
    [xmin |-> 0, ymin |-> 0, xmax |-> 6 * MaxX + 4, ymax |-> 6 * MaxY + 4]

\* the records of the input feature class
BuildingFeatures == {[polygon |-> Footprint(c), building |-> "yes"] : c \in Sites}

OtherFeatures == {[polygon |-> Park, building |-> "no"]}

InputFeatures == BuildingFeatures \cup OtherFeatures

\* the input feature classes: no two buildings share a footprint
InputClasses ==
    UNION {{f \in [1 .. n -> InputFeatures] :
               \A a, b \in 1 .. n :
                   (a # b /\ f[a].building = "yes" /\ f[b].building = "yes")
                       => f[a].polygon # f[b].polygon} : n \in 0 .. MaxN}

\* FeatureToPoint(..., 'CENTROID') on a rectangle
Centroid(poly) ==
    <<(poly.xmin + poly.xmax) \div 2, (poly.ymin + poly.ymax) \div 2>>

Cross(p, q, r) ==
    (q[1] - p[1]) * (r[2] - p[2]) - (q[2] - p[2]) * (r[1] - p[1])

Sign(v) == IF v > 0 THEN 1 ELSE IF v < 0 THEN -1 ELSE 0

Orient(p, q, r) == Sign(Cross(p, q, r))

Min(a, b) == IF a < b THEN a ELSE b

Max(a, b) == IF a > b THEN a ELSE b

\* r, known to be collinear with p and q, lies between them
Between(p, q, r) ==
    /\ Min(p[1], q[1]) <= r[1] /\ r[1] <= Max(p[1], q[1])
    /\ Min(p[2], q[2]) <= r[2] /\ r[2] <= Max(p[2], q[2])

\* the closed segments p1-q1 and p2-q2 have a point in common
SegmentsIntersect(p1, q1, p2, q2) ==
    LET o1 == Orient(p1, q1, p2)
        o2 == Orient(p1, q1, q2)
        o3 == Orient(p2, q2, p1)
        o4 == Orient(p2, q2, q1)
    IN  \/ (o1 # o2 /\ o3 # o4)
        \/ (o1 = 0 /\ Between(p1, q1, p2))
        \/ (o2 = 0 /\ Between(p1, q1, q2))
        \/ (o3 = 0 /\ Between(p2, q2, p1))
        \/ (o4 = 0 /\ Between(p2, q2, q1))

PointInPolygon(p, poly) ==
    /\ poly.xmin <= p[1] /\ p[1] <= poly.xmax
    /\ poly.ymin <= p[2] /\ p[2] <= poly.ymax

Edges(poly) ==
    LET a == <<poly.xmin, poly.ymin>>
        b == <<poly.xmax, poly.ymin>>
        c == <<poly.xmax, poly.ymax>>
        d == <<poly.xmin, poly.ymax>>
    IN  {<<a, b>>, <<b, c>>, <<c, d>>, <<d, a>>}

\* the closed segment p-q touches the boundary or the interior of poly
SegmentIntersectsPolygon(p, q, poly) ==
    \/ PointInPolygon(p, poly)
    \/ PointInPolygon(q, poly)
    \/ \E e \in Edges(poly) : SegmentsIntersect(p, q, e[1], e[2])

\* --------------------------------------------------------- arcpy operations
IsBuilding(f) == f.building = "yes"

\* SelectLayerByAttribute(filtering_layer, "building = 'yes'") and CopyFeatures:
\* the copy numbers its features 1..n in the order of the input
FilterBuildings(fc) == SelectSeq([k \in 1 .. Len(fc) |-> fc[k]], IsBuilding)

Polygons(fc) == [k \in 1 .. Len(fc) |-> fc[k].polygon]

\* FeatureToPoint: one point per building, in the same order
FeatureToPoint(polys) == [k \in 1 .. Len(polys) |-> Centroid(polys[k])]

\* the object ids matched by '<id> = i Or <id> = j'
ClauseCentroids(n, a, b) == {k \in 1 .. n : k = a \/ k = b}

\* selection_type ADD_TO_SELECTION instead of NEW_SELECTION
SelectLayerByAttribute_Add(selection, matched) == selection \cup matched

\* SelectLayerByAttribute(layer_centroids, 'NEW_SELECTION', clause)
SelectLayerByAttribute(selection, matched) == matched

SelectLayerByLocation_Add(selection, matched) == selection \cup matched

\* SelectLayerByLocation(layer_polygons, INTERSECT, line_layer, 'NEW_SELECTION')
SelectLayerByLocation(selection, matched) == matched

RECURSIVE Ascending(_)
\* the elements of a finite set of integers in ascending order
Ascending(S) ==
    IF S = {} THEN <<>>
    ELSE LET m == CHOOSE x \in S : \A y \in S : x <= y
         IN  <<m>> \o Ascending(S \ {m})

\* the rows a SearchCursor on a layer returns: the selected ones, by object id
CursorRows(selection) == Ascending(selection)

\* create_line: the polyline through the selected points, in cursor order
create_line(points, selection) ==
    [k \in 1 .. Cardinality(selection) |-> points[CursorRows(selection)[k]]]

\* a single vertex kept as a point of the geometry
LineSegments_Vertex(vertices) ==
    IF Len(vertices) = 1 THEN {<<vertices[1], vertices[1]>>}
    ELSE {<<vertices[k], vertices[k + 1]>> : k \in 1 .. Len(vertices) - 1}

\* arcpy.Polyline(array): the segments joining consecutive vertices; a path
\* of one vertex has no segment and the geometry is empty
LineSegments(vertices) ==
    {<<vertices[k], vertices[k + 1]>> : k \in 1 .. Len(vertices) - 1}

\* overlap_type INTERSECT of a line feature with a polygon
LineIntersects(vertices, poly) ==
    \E s \in LineSegments(vertices) : SegmentIntersectsPolygon(s[1], s[2], poly)

\* the polygons of the layer that intersect the line feature
IntersectedPolygons(polys, vertices) ==
    {k \in 1 .. Len(polys) : LineIntersects(vertices, polys[k])}

\* for i in range(1, n_centroids+1), one item short
RowIds_Short(n) == 1 .. n - 1

\* for i in range(1, n_centroids+1)
RowIds(n) == 1 .. n

ColIds_Short(n) == 1 .. n - 1

\* for j in range(1, n_centroids+1)
ColIds(n) == 1 .. n

\* the cursor opened on the layer, which carries the last selection
GeoCursorRows_Layer(n, selection) == selection

\* SearchCursor(centroids, ...): the cursor of line 179 reads the feature class
GeoCursorRows(n, selection) == 1 .. n

\* what one pair of the double loop computes, from the buildings alone
PairCount(polys, a, b) ==
    Cardinality(IntersectedPolygons(polys,
        create_line(FeatureToPoint(polys), ClauseCentroids(Len(polys), a, b))))

\* the cells of a dictionary of rows
Cells(d) == {<<a, b>> \in (1 .. MaxN) \X (1 .. MaxN) : a \in DOMAIN d /\ b \in 1 .. Len(d[a])}

\* ------------------------------------------------------------------- state
VARIABLES
    features,       \* buildings_not_filtered, the input feature class
    buildings,      \* the feature class <name>_buildings_only (its polygons)
    centroids,      \* the feature class <name>_centroids (its points)
    n_centroids,    \* local of main
    sel_centroids,  \* current selection of layer_centroids
    sel_polygons,   \* current selection of layer_polygons
    line,           \* the feature in_memory/line (its vertices)
    dict_out,       \* local of main: id -> list of counts
    geo_coord,      \* local of main: id -> (x, y)
    f_geo,          \* BuildingCentroids.pkl
    f_int,          \* BuildingsIntersections.pkl
    i,              \* outer loop variable
    j,              \* inner loop variable
    pc,             \* position of main
    writes,         \* history: number of writes of each matrix cell
    last_read       \* history: the cells read by the latest print or export

vars == <<features, buildings, centroids, n_centroids, sel_centroids, sel_polygons,
          line, dict_out, geo_coord, f_geo, f_int, i, j, pc, writes, last_read>>

NoFile == [written |-> FALSE, data |-> <<>>]

NoWrites == [c \in (1 .. MaxN) \X (1 .. MaxN) |-> 0]

Init ==
    /\ features \in InputClasses
    /\ buildings = <<>>
    /\ centroids = <<>>
    /\ n_centroids = 0
    /\ sel_centroids = {}
    /\ sel_polygons = {}
    /\ line = <<>>
    /\ dict_out = <<>>
    /\ geo_coord = <<>>
    /\ f_geo = NoFile
    /\ f_int = NoFile
    /\ i = 0
    /\ j = 0
    /\ pc = "filter"
    /\ writes = NoWrites
    /\ last_read = {}

\* lines 98-114: filter the buildings into <name>_buildings_only
Filter ==
    /\ pc = "filter"
    /\ buildings' = Polygons(FilterBuildings(features))
    /\ pc' = "centroids"
    /\ UNCHANGED <<features, centroids, n_centroids, sel_centroids, sel_polygons, line,
                   dict_out, geo_coord, f_geo, f_int, i, j, writes, last_read>>

\* lines 116-140: centroids, their count, the two layers, the empty dictionary
MakeCentroids ==
    /\ pc = "centroids"
    /\ centroids' = FeatureToPoint(buildings)
    /\ n_centroids' = Len(buildings)
    /\ sel_centroids' = {}
    /\ sel_polygons' = {}
    /\ dict_out' = <<>>
    /\ i' = 1
    /\ pc' = "row"
    /\ UNCHANGED <<features, buildings, line, geo_coord, f_geo, f_int, j, writes,
                   last_read>>

\* lines 143-145: the next row of the outer loop
RowStart ==
    /\ pc = "row"
    /\ i \in RowIds(n_centroids)
    /\ dict_out' = [k \in DOMAIN dict_out \cup {i} |-> IF k = i THEN <<>> ELSE dict_out[k]]
    /\ j' = 1
    /\ pc' = "pair"
    /\ UNCHANGED <<features, buildings, centroids, n_centroids, sel_centroids,
                   sel_polygons, line, geo_coord, f_geo, f_int, i, writes, last_read>>

\* lines 146-169: one pair of the inner loop
Pair ==
    /\ pc = "pair"
    /\ j \in ColIds(n_centroids)
    /\ LET sc == SelectLayerByAttribute(sel_centroids,
                     ClauseCentroids(Len(centroids), i, j))
           ln == create_line(centroids, sc)
           sp == SelectLayerByLocation(sel_polygons, IntersectedPolygons(buildings, ln))
           n_crossed_building == Cardinality(sp)
           row == Append(dict_out[i], n_crossed_building)
       IN  /\ sel_centroids' = sc
           /\ line' = ln
           /\ sel_polygons' = sp
           /\ dict_out' = [dict_out EXCEPT ![i] = row]
           /\ writes' = [writes EXCEPT ![<<i, Len(row)>>] = @ + 1]
           /\ last_read' = {<<i, k>> : k \in 1 .. Len(row)}
    /\ j' = j + 1
    /\ UNCHANGED <<features, buildings, centroids, n_centroids, geo_coord, f_geo, f_int,
                   i, pc>>

\* the inner loop is exhausted
RowEnd ==
    /\ pc = "pair"
    /\ j \notin ColIds(n_centroids)
    /\ i' = i + 1
    /\ pc' = "row"
    /\ UNCHANGED <<features, buildings, centroids, n_centroids, sel_centroids,
                   sel_polygons, line, dict_out, geo_coord, f_geo, f_int, j, writes,
                   last_read>>

\* line 171: the outer loop is exhausted, print(dict_out)
PrintMatrix ==
    /\ pc = "row"
    /\ i \notin RowIds(n_centroids)
    /\ last_read' = Cells(dict_out)
    /\ pc' = "coordinates"
    /\ UNCHANGED <<features, buildings, centroids, n_centroids, sel_centroids,
                   sel_polygons, line, dict_out, geo_coord, f_geo, f_int, i, j, writes>>

\* lines 173-183: AddXY and the coordinate dictionary
Coordinates ==
    /\ pc = "coordinates"
    /\ geo_coord' = [k \in GeoCursorRows(Len(centroids), sel_centroids) |-> centroids[k]]
    /\ pc' = "dump_geo"
    /\ UNCHANGED <<features, buildings, centroids, n_centroids, sel_centroids,
                   sel_polygons, line, dict_out, f_geo, f_int, i, j, writes, last_read>>

\* lines 187-190
DumpCoordinates ==
    /\ pc = "dump_geo"
    /\ f_geo' = [written |-> TRUE, data |-> geo_coord]
    /\ pc' = "dump_int"
    /\ UNCHANGED <<features, buildings, centroids, n_centroids, sel_centroids,
                   sel_polygons, line, dict_out, geo_coord, f_int, i, j, writes,
                   last_read>>

\* lines 193-196
DumpIntersections ==
    /\ pc = "dump_int"
    /\ f_int' = [written |-> TRUE, data |-> dict_out]
    /\ last_read' = Cells(dict_out)
    /\ pc' = "message"
    /\ UNCHANGED <<features, buildings, centroids, n_centroids, sel_centroids,
                   sel_polygons, line, dict_out, geo_coord, f_geo, i, j, writes>>

\* lines 205-208
Return ==
    /\ pc = "message"
    /\ pc' = "done"
    /\ UNCHANGED <<features, buildings, centroids, n_centroids, sel_centroids,
                   sel_polygons, line, dict_out, geo_coord, f_geo, f_int, i, j, writes,
                   last_read>>

\* an arcpy.ExecuteError or IOError leaves main (it has no try/except): the
\* process and the in_memory workspace are gone, the files written stay
Abort ==
    /\ pc \notin {"done", "aborted"}
    /\ pc' = "aborted"
    /\ sel_centroids' = {}
    /\ sel_polygons' = {}
    /\ line' = <<>>
    /\ dict_out' = <<>>
    /\ geo_coord' = <<>>
    /\ n_centroids' = 0
    /\ i' = 0
    /\ j' = 0
    /\ writes' = NoWrites
    /\ last_read' = {}
    /\ UNCHANGED <<features, buildings, centroids, f_geo, f_int>>

Next ==
    \/ Filter
    \/ MakeCentroids
    \/ RowStart
    \/ Pair
    \/ RowEnd
    \/ PrintMatrix
    \/ Coordinates
    \/ DumpCoordinates
    \/ DumpIntersections
    \/ Return
    \/ Abort

Spec == Init /\ [][Next]_vars

\* ------------------------------------------------------------------ claims
AfterCounting == {"coordinates", "dump_geo", "dump_int", "message", "done"}

Ids == 1 .. Len(buildings)

\* the buildings other than a and b whose footprint the segment joining the
\* centroids of a and b intersects
Obstructions(polys, a, b) ==
    {k \in (1 .. Len(polys)) \ {a, b} :
        SegmentIntersectsPolygon(Centroid(polys[a]), Centroid(polys[b]), polys[k])}

AllCounted == \A a, b \in Ids : writes[<<a, b>>] = 1

\* C1: for every pair of distinct buildings the recorded value is the number
\* of OTHER buildings whose footprint the segment between the two centroids
\* intersects; the footprints of the pair itself are not counted.
C1_OnlyOtherBuildingsCounted ==
    \A c \in Cells(dict_out) :
        c[1] # c[2] => dict_out[c[1]][c[2]] = Cardinality(Obstructions(buildings, c[1], c[2]))

\* C2: after the counting loops the matrix is symmetric: the j-th entry of
\* dict_out[i] equals the i-th entry of dict_out[j].
C2_Symmetric ==
    pc \in AfterCounting =>
        \A a, b \in Ids : a # b => dict_out[a][b] = dict_out[b][a]

\* three buildings, not every pair with the same count, matrix finished
C2_Witness ==
    /\ pc = "done"
    /\ Len(buildings) = 3
    /\ \E a, b, c \in Ids : a # b /\ a # c /\ dict_out[a][b] = 3 /\ dict_out[a][c] = 2

C4_AtMostNMinusTwo ==
    \A c \in Cells(dict_out) :
        c[1] # c[2] =>
            (0 <= dict_out[c[1]][c[2]] /\ dict_out[c[1]][c[2]] <= n_centroids - 2)

\* C5 as stated: a run that is aborted has written both files or none, and no
\* file is written before every pair has been counted.
C5_BothOrNone ==
    /\ pc = "aborted" => (f_geo.written <=> f_int.written)
    /\ (pc # "aborted" /\ (f_geo.written \/ f_int.written)) => AllCounted

\* C5 as amended: a file is written only when every pair has been counted, and
\* BuildingsIntersections.pkl only when BuildingCentroids.pkl has been written.
C5_ExportAfterCounting ==
    [][(f_geo' # f_geo \/ f_int' # f_int) =>
          (AllCounted /\ (f_int' # f_int => f_geo.written))]_vars

\* the run failed between the two exports
C5_Witness ==
    /\ pc = "aborted"
    /\ Len(buildings) >= 2
    /\ f_geo.written
    /\ ~f_int.written

\* C6: the exported matrix has exactly the keys 1..n, every row has length n
\* and its j-th entry is the count computed for the pair (i, j).
C6_ExportedMatrixComplete ==
    f_int.written =>
        /\ DOMAIN f_int.data = Ids
        /\ \A a \in Ids :
              /\ Len(f_int.data[a]) = Len(buildings)
              /\ \A b \in Ids : f_int.data[a][b] = PairCount(buildings, a, b)

\* a matrix of three buildings has been exported
C6_Witness ==
    /\ f_int.written
    /\ Len(buildings) = 3
    /\ \E a, b \in Ids : f_int.data[a][b] = 3

\* C7: the exported coordinate table has exactly the keys 1..n, one per
\* building, the same ids as the matrix, and entry k is the centroid of
\* building k.
C7_CoordinateTableComplete ==
    f_geo.written =>
        /\ DOMAIN f_geo.data = Ids
        /\ Cardinality(DOMAIN f_geo.data) = Len(buildings)
        /\ pc # "aborted" => DOMAIN dict_out = DOMAIN f_geo.data
        /\ f_int.written => DOMAIN f_int.data = DOMAIN f_geo.data
        /\ \A k \in Ids : f_geo.data[k] = Centroid(buildings[k])

\* both files written for three buildings
C7_Witness ==
    /\ f_geo.written
    /\ f_int.written
    /\ Len(buildings) = 3
    /\ Len(features) = 3

\* C8: the count recorded for a pair is a function of the pair and of the
\* buildings only; the selections and the line left by the pairs processed
\* before do not change it.
C8_CountIndependentOfEarlierPairs ==
    /\ \A c \in Cells(dict_out) : dict_out[c[1]][c[2]] = PairCount(buildings, c[1], c[2])
    /\ pc # "aborted" => sel_polygons = IntersectedPolygons(buildings, line)

\* the pair (2, 2) selected nothing right after the pair (2, 1) had selected
\* three polygons
C8_Witness ==
    /\ pc = "pair"
    /\ i = 2
    /\ j = 3
    /\ dict_out[2][1] = 3
    /\ dict_out[2][2] = 0
    /\ sel_polygons = {}

\* C10 as stated: every cell is written exactly once and the matrix is read
\* only after its last cell has been written.
C10_ReadOnlyWhenComplete ==
    /\ \A c \in DOMAIN writes : writes[c] <= 1
    /\ last_read # {} => AllCounted

\* C10 as amended: every cell is written at most once, every cell read has
\* been written, and once the loops are left every cell has been written
\* exactly once (the whole matrix is printed and exported only then).
C10_WrittenOnceBeforeRead ==
    /\ \A c \in DOMAIN writes : writes[c] <= 1
    /\ \A c \in last_read : writes[c] = 1
    /\ pc \in AfterCounting =>
          /\ AllCounted
          /\ \A c \in DOMAIN writes : writes[c] = 1 <=> (c[1] \in Ids /\ c[2] \in Ids)

\* the row being filled is reported while cells of the matrix are unwritten
C10_Witness ==
    /\ pc = "pair"
    /\ last_read # {}
    /\ ~AllCounted

=============================================================================
